---------------------------- MODULE Spec2Model ----------------------------
(***************************************************************************)
(* A model of the potential-to-projection core of cryojax:                 *)
(*   - the voxel projection method (projection_method.py),                 *)
(*   - the Gaussian2D real-space operator (_real_operator.py),             *)
(*   - the voxel-building pipeline exercised by test_voxels_from_atoms.py. *)
(*                                                                         *)
(* Physical sizes (voxel_size, pixel_size, b_factor) are integers in a     *)
(* fixed unit; complex numbers are pairs <<re, im>> of integers; real      *)
(* numbers that need division are fixed-point integers.                    *)
(***************************************************************************)
EXTENDS Integers, Sequences, FiniteSets, TLC

VARIABLES
    potential,   \* the current voxel potential [grid, n, voxel_size], or None
    config,      \* the current InstrumentConfig [padded_shape, pixel_size], or None
    result,      \* what the last projection call returned, or None
    calls,       \* number of projection calls made so far
    raised,      \* TRUE when the last constructor call raised a validation error
    arg,         \* <<x>>: the positive-field argument of the last constructor call
    op,          \* the current Gaussian2D operator [amplitude, b_factor, offset], or None
    out,         \* what the last operator call returned [coords, val], or None
    real_voxel_grid,    \* the rasterized real grid [shape, val, voxel_size], or None
    fourier_potential,  \* FourierVoxelGridPotential [fourier_voxel_grid, voxel_size], or None
    vg,                 \* RealVoxelGridPotential [real_voxel_grid, voxel_size], or None
    fvg_real,           \* the Fourier potential transformed back to real space, or None
    grid_shape,                     \* shape of the high-resolution grid
    downsampling_factor,            \* <<num, den>>: the factor num / den
    low_resolution_potential_grid,  \* [shape]: the grid rasterized at low resolution, or None
    downsampled_potential_grid,     \* [shape]: the downsampled high-resolution grid, or None
    cloud,              \* the toy Gaussian cloud [atom_positions, ff_a, ff_b,
                        \*   n_voxels_per_side, voxel_size], or None
    largest_atom,       \* <<i>>: the atom whose amplitude the test raises, or <<>>
    atom_grid,          \* the grid rasterized from the cloud [shape, val], or None
    maximum_position    \* <<r>>: the coordinate of the grid's maximum, or <<>>

projVars == <<potential, config, result, calls>>
opVars == <<op, out>>
fftVars == <<real_voxel_grid, fourier_potential, vg, fvg_real>>
callVars == <<raised, arg>>
downVars == <<grid_shape, downsampling_factor, low_resolution_potential_grid,
              downsampled_potential_grid>>
atomVars == <<cloud, largest_atom, atom_grid, maximum_position>>

\* What the actions of one component leave alone.
notProj == <<opVars, fftVars, downVars, atomVars>>
notOp == <<projVars, fftVars, downVars, atomVars>>
notFft == <<projVars, opVars, callVars, downVars, atomVars>>
notDown == <<projVars, opVars, callVars, fftVars, atomVars>>
notAtom == <<projVars, opVars, callVars, fftVars, downVars>>
vars == <<potential, config, result, calls, raised, arg, op, out,
          real_voxel_grid, fourier_potential, vg, fvg_real,
          grid_shape, downsampling_factor, low_resolution_potential_grid,
          downsampled_potential_grid,
          cloud, largest_atom, atom_grid, maximum_position>>

\* The absent object; every object of the model is a record.
None == [none |-> TRUE]

(***************************************************************************)
(* Bounds of the model.                                                    *)
(***************************************************************************)
MaxGrid == 2      \* voxel grids have 1..MaxGrid voxels per side
MaxSize == 2      \* voxel_size and pixel_size range over 1..MaxSize
MaxPad == 3       \* padded image dimensions range over 2..MaxPad
MaxCalls == 2     \* projection calls per behaviour

\* Sizes a caller may hand to a constructor, valid or not.
SizeArgs == (-1) .. MaxSize
PadDims == 2 .. MaxPad

(***************************************************************************)
(* Arithmetic helpers.                                                     *)
(***************************************************************************)
\* Python's round(a / b) for a >= 0, b > 0: round half to even.
RoundDiv(a, b) ==
    LET q == a \div b
        r == a % b
    IN  IF 2 * r < b THEN q
        ELSE IF 2 * r > b THEN q + 1
        ELSE IF q % 2 = 0 THEN q ELSE q + 1

\* Python's int(a / b) for a >= 0, b > 0: truncation.  The quotient is exact;
\* float64 division is not modelled.
TruncDiv(a, b) == a \div b

Zero == <<0, 0>>
Scale(c, z) == <<c * z[1], c * z[2]>>

\* The half-space Hermitian shape of a real image of shape s = <<y, x>>.
HalfShape(s) == <<s[1], (s[2] \div 2) + 1>>

\* The indices of a 2D array; an array is the record [shape, val].
Idx2(shape) == (0 .. shape[1] - 1) \X (0 .. shape[2] - 1)

ScaleArray(c, a) == [shape |-> a.shape, val |-> [ix \in DOMAIN a.val |-> Scale(c, a.val[ix])]]

(***************************************************************************)
(* core.error_if_not_positive: the converter of every positive field.      *)
(* It raises unless the value is strictly positive.                        *)
(***************************************************************************)
error_if_not_positive_raises(x) == ~(x > 0)

(***************************************************************************)
(* Voxel potentials and instrument configurations (value objects).         *)
(***************************************************************************)
Cube(n) == (0 .. n - 1) \X (0 .. n - 1) \X (0 .. n - 1)

\* A grid of side n holding one unit of potential in voxel p.
DeltaGrid(n, p) == [ix \in Cube(n) |-> IF ix = p THEN 1 ELSE 0]

\* The real voxel grids a caller may supply: for each side length, three
\* grids with one unit of potential in a corner voxel.
GridArgs ==
    { [n |-> n, grid |-> DeltaGrid(n, <<0, 0, 0>>)] : n \in 1 .. MaxGrid }
    \cup { [n |-> n, grid |-> DeltaGrid(n, <<n - 1, n - 1, 0>>)] : n \in 1 .. MaxGrid }
    \cup { [n |-> n, grid |-> DeltaGrid(n, <<0, n - 1, n - 1>>)] : n \in 1 .. MaxGrid }

\* RealVoxelGridPotential.from_real_voxel_grid(grid, voxel_size): direct wrap.
MakePotential(g, vs) == [n |-> g.n, grid |-> g.grid, voxel_size |-> vs]

MakeConfig(shape, ps) == [padded_shape |-> shape, pixel_size |-> ps]

(***************************************************************************)
(* Fourier-domain cropping / padding of a half-space array to the          *)
(* half-space array of a real image of shape `to`.                         *)
(***************************************************************************)
\* Signed frequency of index k on a full axis of n samples (fftfreq order).
SignedFreq(k, n) == IF k < (n + 1) \div 2 THEN k ELSE k - n

HasFreq(f, n) == (f >= -(n \div 2)) /\ (f <= (n - 1) \div 2)

IndexOfFreq(f, n) == IF f >= 0 THEN f ELSE f + n

FourierCropOrPad(im, to) ==
    LET rows == im.shape[1]
        cols == im.shape[2]
        Entry(ix) ==
            LET f == SignedFreq(ix[1], to[1])
            IN  IF HasFreq(f, rows) /\ ix[2] < cols
                THEN im.val[<<IndexOfFreq(f, rows), ix[2]>>]
                ELSE Zero
    IN  [shape |-> HalfShape(to), val |-> [ix \in Idx2(HalfShape(to)) |-> Entry(ix)]]

Max(a, b) == IF a >= b THEN a ELSE b

\* rescale_pixel_size on Fourier data: resize in Fourier space to
\* round(shape / factor), factor = new / current, then back to the real shape.
RescalePixelSize(im, current, new, shape) ==
    LET mid == <<Max(1, RoundDiv(shape[1] * current, new)),
                 Max(1, RoundDiv(shape[2] * current, new))>>
    IN  FourierCropOrPad(FourierCropOrPad(im, mid), shape)

\* image.maybe_rescale_pixel_size(image, current, new, is_real=False,
\* shape_in_real_space=shape).
maybe_rescale_pixel_size(im, current, new, shape) ==
    IF current # new THEN RescalePixelSize(im, current, new, shape) ELSE im

(***************************************************************************)
(* The projection method.                                                  *)
(***************************************************************************)
RECURSIVE ColumnSum(_, _, _, _)
\* The sum of grid[y, x, z] over the planes z < n.
ColumnSum(grid, y, x, n) ==
    IF n = 0 THEN 0 ELSE grid[<<y, x, n - 1>>] + ColumnSum(grid, y, x, n - 1)

\* compute_raw_fourier_projected_potential: abstract in the base class.  The
\* concrete method modelled here integrates the grid along the viewing axis
\* (real part), adds an index-dependent imaginary part, and lays the result
\* out on the half-space grid of config.padded_shape.
compute_raw_fourier_projected_potential(p, c) ==
    LET Column(ix) ==
            LET y == ix[1] % p.n
                x == ix[2] % p.n
            IN  <<ColumnSum(p.grid, y, x, p.n), y - x>>
    IN  [shape |-> HalfShape(c.padded_shape),
         val |-> [ix \in Idx2(HalfShape(c.padded_shape)) |-> Column(ix)]]

\* A faulty variant: the voxel-size scale factor is dropped.
compute_fourier_projected_potential_unscaled(p, c) ==
    maybe_rescale_pixel_size(
        compute_raw_fourier_projected_potential(p, c),
        p.voxel_size, c.pixel_size, c.padded_shape)

\* A faulty variant: shape_in_real_space is given as (x, y) instead of (y, x).
compute_fourier_projected_potential_swapped(p, c) ==
    maybe_rescale_pixel_size(
        ScaleArray(p.voxel_size, compute_raw_fourier_projected_potential(p, c)),
        p.voxel_size, c.pixel_size,
        <<c.padded_shape[2], c.padded_shape[1]>>)

\* AbstractVoxelPotentialProjectionMethod.compute_fourier_projected_potential
compute_fourier_projected_potential(p, c) ==
    maybe_rescale_pixel_size(
        ScaleArray(p.voxel_size, compute_raw_fourier_projected_potential(p, c)),
        p.voxel_size, c.pixel_size, c.padded_shape)

(***************************************************************************)
(* Actions of the projection pipeline.                                     *)
(***************************************************************************)
\* Construct a voxel potential; voxel_size is validated at construction.
NewPotential ==
    \E g \in GridArgs, vs \in SizeArgs :
        /\ arg' = <<vs>>
        /\ raised' = error_if_not_positive_raises(vs)
        /\ potential' = IF raised' THEN potential ELSE MakePotential(g, vs)
        /\ result' = IF raised' THEN result ELSE None
        /\ UNCHANGED <<config, calls, notProj>>

\* Construct an instrument configuration; pixel_size is validated.
NewConfig ==
    \E y \in PadDims, x \in PadDims, ps \in SizeArgs :
        /\ arg' = <<ps>>
        /\ raised' = error_if_not_positive_raises(ps)
        /\ config' = IF raised' THEN config ELSE MakeConfig(<<y, x>>, ps)
        /\ result' = IF raised' THEN result ELSE None
        /\ UNCHANGED <<potential, calls, notProj>>

\* A faulty variant: the projection scales the potential's grid in place.
ProjectInPlace ==
    /\ potential # None /\ config # None /\ calls < MaxCalls
    /\ result' = compute_fourier_projected_potential(potential, config)
    /\ potential' = [potential EXCEPT
                        !.grid = [ix \in DOMAIN potential.grid |->
                                     potential.voxel_size * potential.grid[ix]]]
    /\ calls' = calls + 1
    /\ raised' = FALSE /\ arg' = <<>>
    /\ UNCHANGED <<config, notProj>>

\* One call of compute_fourier_projected_potential(potential, config).
Project ==
    /\ potential # None /\ config # None /\ calls < MaxCalls
    /\ result' = compute_fourier_projected_potential(potential, config)
    /\ calls' = calls + 1
    /\ raised' = FALSE /\ arg' = <<>>
    /\ UNCHANGED <<potential, config, notProj>>

IdleProj == potential = None /\ config = None /\ result = None /\ calls = 0
IdleOp == op = None /\ out = None
IdleAtom ==
    /\ cloud = None /\ largest_atom = <<>>
    /\ atom_grid = None /\ maximum_position = <<>>
IdleDown ==
    /\ grid_shape = <<>> /\ downsampling_factor = <<>>
    /\ low_resolution_potential_grid = None /\ downsampled_potential_grid = None
IdleFft ==
    /\ real_voxel_grid = None /\ fourier_potential = None
    /\ vg = None /\ fvg_real = None

NoCall == raised = FALSE /\ arg = <<>>

InitProj == IdleProj /\ IdleOp /\ IdleFft /\ IdleDown /\ IdleAtom /\ NoCall

NextProj == NewPotential \/ NewConfig \/ Project

SpecProj == InitProj /\ [][NextProj]_vars

(***************************************************************************)
(* Properties of the projection method.                                    *)
(***************************************************************************)
\* C1: when potential.voxel_size equals config.pixel_size, the projection is
\* exactly voxel_size times the raw projection: nothing is resampled.
C1_EqualSizesPassThrough ==
    (result # None /\ potential.voxel_size = config.pixel_size) =>
        result = ScaleArray(potential.voxel_size,
                            compute_raw_fourier_projected_potential(potential, config))

C1_Witness ==
    /\ result # None
    /\ potential.voxel_size = config.pixel_size
    /\ potential.voxel_size > 1
    /\ \E ix \in DOMAIN result.val : result.val[ix] # Zero

\* C2: whether or not the sizes agree, the projection has the half-space shape
\* (padded_y_dim, padded_x_dim // 2 + 1).
C2_HalfSpaceShape ==
    result # None =>
        /\ result.shape = <<config.padded_shape[1], (config.padded_shape[2] \div 2) + 1>>
        /\ DOMAIN result.val = Idx2(result.shape)

C2_Witness ==
    /\ result # None
    /\ potential.voxel_size # config.pixel_size
    /\ config.padded_shape[1] # config.padded_shape[2]

\* C9: a projection call leaves the potential and the config as they were, and
\* what it returns depends on them alone, however many calls came before.
C9_ProjectionIsPure ==
    [][calls' # calls =>
          /\ potential' = potential
          /\ config' = config
          /\ result' = compute_fourier_projected_potential(potential', config')]_vars

C9_Witness ==
    /\ calls = MaxCalls
    /\ result # None
    /\ potential.voxel_size > 1
    /\ potential.voxel_size # config.pixel_size


(***************************************************************************)
(* Fixed-point real arithmetic: the real number x is the integer x * FP.   *)
(***************************************************************************)
FP == 1000         \* fixed-point unit
ExpTerms == 16     \* terms of the exponential series
MaxAmp == 2        \* amplitudes range over 1..MaxAmp
MaxCoord == 1      \* image coordinates and offsets range over 0..MaxCoord

PiFP == (3142 * FP) \div 1000

RECURSIVE ISqrtSearch(_, _, _)
ISqrtSearch(v, lo, hi) ==
    IF lo >= hi THEN lo
    ELSE LET mid == (lo + hi + 1) \div 2
         IN  IF mid * mid <= v THEN ISqrtSearch(v, mid, hi)
             ELSE ISqrtSearch(v, lo, mid - 1)

\* jnp.sqrt on a fixed-point number.
SqrtFP(x) == ISqrtSearch(x * FP, 0, IF x * FP < 46340 THEN x * FP ELSE 46340)

RECURSIVE ExpSeries(_, _, _, _)
ExpSeries(x, k, term, acc) ==
    IF k > ExpTerms THEN acc
    ELSE LET next == (term * x) \div (k * FP)
         IN  ExpSeries(x, k + 1, next, acc + next)

\* jnp.exp(-x) for a fixed-point x >= 0; below exp(-6) the result rounds to 0.
ExpNegFP(x) == IF x > 6 * FP THEN 0 ELSE (FP * FP) \div ExpSeries(x, 1, FP, FP)

DivFP(a, b) == (a * FP) \div b
MulFP(a, b) == (a * b) \div FP

(***************************************************************************)
(* image.operators.Gaussian2D                                              *)
(***************************************************************************)
Points == (0 .. MaxCoord) \X (0 .. MaxCoord)

\* Coordinate arrays handed to the operator: every one-point array, and the
\* two-point arrays that start at the origin.
CoordArgs == { <<p>> : p \in Points } \cup { <<<<0, 0>>, p>> : p \in Points }

\* A faulty variant: b_factor is converted with jnp.asarray, like the other fields.
Gaussian2D_raises_unvalidated(amplitude, b_factor, offset) == FALSE

\* Field conversion at construction: b_factor goes through
\* error_if_not_positive, amplitude and offset through jnp.asarray.
Gaussian2D_raises(amplitude, b_factor, offset) ==
    error_if_not_positive_raises(b_factor)

MakeGaussian2D(amplitude, b_factor, offset) ==
    [amplitude |-> amplitude, b_factor |-> b_factor, offset |-> offset]

\* r_sqr = jnp.sum((coords - self.offset) ** 2, axis=-1), at one coordinate.
RSqr(r, offset) ==
    (r[1] - offset[1]) * (r[1] - offset[1]) + (r[2] - offset[2]) * (r[2] - offset[2])

\* exp(-0.5 * r_sqr / b_factor)
GaussianExponential(r, self) == ExpNegFP((RSqr(r, self.offset) * FP) \div (2 * self.b_factor))

\* Gaussian2D.__call__ at one coordinate:
\* (amplitude / sqrt(2 pi b_factor)) * exp(-0.5 r_sqr / b_factor).
Gaussian2D_value(r, self) ==
    MulFP(DivFP(self.amplitude * FP, SqrtFP(2 * PiFP * self.b_factor)),
          GaussianExponential(r, self))

\* The class documentation: g(r) = kappa / (2 pi beta) exp(-(r - r0)^2 / (2 beta)).
Gaussian2D_documented(r, self) ==
    MulFP(DivFP(self.amplitude * FP, 2 * PiFP * self.b_factor),
          GaussianExponential(r, self))

Gaussian2D_call(self, coords) ==
    [coords |-> coords,
     val |-> [i \in DOMAIN coords |-> Gaussian2D_value(coords[i], self)]]

\* Construct a Gaussian2D; the converters run in __init__.
NewGaussian2D ==
    \E a \in 1 .. MaxAmp, b \in SizeArgs, off \in Points :
        /\ arg' = <<b>>
        /\ raised' = Gaussian2D_raises(a, b, off)
        /\ op' = IF raised' THEN op ELSE MakeGaussian2D(a, b, off)
        /\ out' = IF raised' THEN out ELSE None
        /\ UNCHANGED notOp

\* Evaluate the operator on a coordinate array.
CallGaussian2D ==
    \E coords \in CoordArgs :
        /\ op # None
        /\ out' = Gaussian2D_call(op, coords)
        /\ raised' = FALSE /\ arg' = <<>>
        /\ UNCHANGED <<op, notOp>>

InitOp == IdleProj /\ IdleOp /\ IdleFft /\ IdleDown /\ IdleAtom /\ NoCall

NextOp == NewGaussian2D \/ CallGaussian2D

SpecOp == InitOp /\ [][NextOp]_vars

(***************************************************************************)
(* Properties of the Gaussian2D operator.                                  *)
(***************************************************************************)
\* C8: validation is eager.  A constructor call with a non-positive b_factor
\* raises, no operator with a non-positive b_factor exists, and no operator
\* call has run on one.
C8_ValidationIsEager ==
    /\ (arg # <<>> /\ arg[1] <= 0) => raised
    /\ op # None => op.b_factor > 0
    /\ out # None => (op # None /\ op.b_factor > 0)

\* A non-positive b_factor was refused while a valid operator, already called,
\* stayed in place.
C8_Witness ==
    /\ arg # <<>> /\ arg[1] <= 0 /\ raised
    /\ op # None /\ out # None

Abs(x) == IF x >= 0 THEN x ELSE -x

\* Agreement of two fixed-point numbers up to rounding (half a percent of the unit).
CloseFP(a, b) == Abs(a - b) <= FP \div 200

\* C10: at every coordinate the operator returns the documented value
\* kappa / (2 pi beta) * exp(-(r - r0)^2 / (2 beta)).
C10_DocumentedValue ==
    out # None =>
        \A i \in DOMAIN out.coords :
            CloseFP(out.val[i], Gaussian2D_documented(out.coords[i], op))

(***************************************************************************)
(* The two voxel representations (test_fourier_vs_real_voxel_potential_    *)
(* agreement).  The discrete Fourier transform is computed exactly, over   *)
(* the field of integers modulo Modulus, whose element Generator has       *)
(* multiplicative order Modulus - 1: a primitive n-th root of unity exists *)
(* for every axis length n dividing Modulus - 1.  A real grid value is the *)
(* residue of an integer.                                                  *)
(***************************************************************************)
Modulus == 13
Generator == 2
MaxAxis == 3       \* voxel grid axes have 1..MaxAxis samples
MaxSeed == 1       \* rasterized test grids per shape: seeds 0..MaxSeed

Idx3(shape) == (0 .. shape[1] - 1) \X (0 .. shape[2] - 1) \X (0 .. shape[3] - 1)

\* Generator^e mod Modulus, the exponent reduced first.
RootPower(n, e) ==
    (Generator ^ ((((Modulus - 1) \div n) * (e % n)) % (Modulus - 1))) % Modulus

InverseMod(x) == CHOOSE y \in 1 .. Modulus - 1 : (x * y) % Modulus = 1

RECURSIVE AxisSum(_, _, _, _, _, _)
\* Sum over j < n of val[ix with axis := j] * w^(sign * j * ix[axis]).
AxisSum(val, ix, axis, n, sign, j) ==
    IF j = n THEN 0
    ELSE LET e == IF sign > 0 THEN j * ix[axis] ELSE n * n - j * ix[axis]
         IN  (val[[ix EXCEPT ![axis] = j]] * RootPower(n, e)
              + AxisSum(val, ix, axis, n, sign, j + 1)) % Modulus

TransformAxis(a, axis, sign) ==
    [shape |-> a.shape,
     val |-> [ix \in Idx3(a.shape) |-> AxisSum(a.val, ix, axis, a.shape[axis], sign, 0)]]

\* image.fftn: the forward transform over all three axes.
fftn(a) == TransformAxis(TransformAxis(TransformAxis(a, 1, -1), 2, -1), 3, -1)

\* image.ifftn: the inverse transform over all three axes, normalized by the
\* number of samples.
ifftn(a) ==
    LET b == TransformAxis(TransformAxis(TransformAxis(a, 1, 1), 2, 1), 3, 1)
        inv == InverseMod((a.shape[1] * a.shape[2] * a.shape[3]) % Modulus)
    IN  [shape |-> b.shape, val |-> [ix \in Idx3(b.shape) |-> (b.val[ix] * inv) % Modulus]]

\* jnp.roll by `by[i]` along every axis i.
Roll(a, by) ==
    [shape |-> a.shape,
     val |-> [ix \in Idx3(a.shape) |->
                a.val[<<(ix[1] + a.shape[1] - by[1]) % a.shape[1],
                        (ix[2] + a.shape[2] - by[2]) % a.shape[2],
                        (ix[3] + a.shape[3] - by[3]) % a.shape[3]>>]]]

\* jnp.fft.fftshift: roll every axis by n // 2.
fftshift(a) == Roll(a, <<a.shape[1] \div 2, a.shape[2] \div 2, a.shape[3] \div 2>>)

\* jnp.fft.ifftshift: roll every axis by -(n // 2).
ifftshift(a) ==
    Roll(a, <<a.shape[1] - (a.shape[1] \div 2), a.shape[2] - (a.shape[2] \div 2),
              a.shape[3] - (a.shape[3] \div 2)>>)

\* The grids as_real_voxel_grid may produce: for each shape and seed a
\* deterministic pattern of small non-negative values.
TestGrid(shape, seed) ==
    [shape |-> shape,
     val |-> [ix \in Idx3(shape) |->
                ((ix[1] + 1) * (seed + 1) + ix[2] * (ix[3] + seed) + 2 * ix[3]) % 3]]

AxisLens == 1 .. MaxAxis

RealGridArgs ==
    { TestGrid(<<a, b, c>>, seed) : a \in AxisLens, b \in AxisLens, c \in AxisLens,
                                    seed \in 0 .. MaxSeed }

\* FourierVoxelGridPotential.from_real_voxel_grid: forward transform, then the
\* shift that centres the zero frequency.
FourierVoxelGridPotential_from_real_voxel_grid(g, voxel_size) ==
    [fourier_voxel_grid |-> fftshift(fftn(g)), voxel_size |-> voxel_size]

\* RealVoxelGridPotential.from_real_voxel_grid: wraps the grid as it is.
RealVoxelGridPotential_from_real_voxel_grid(g, voxel_size) ==
    [real_voxel_grid |-> g, voxel_size |-> voxel_size]

\* A faulty variant: the grid is un-shifted with fftshift.
inverse_transform_fftshift(fp) == ifftn(fftshift(fp.fourier_voxel_grid))

\* fvg_real = ifftn(jnp.fft.ifftshift(fourier_potential.fourier_voxel_grid)).real
inverse_transform(fp) == ifftn(ifftshift(fp.fourier_voxel_grid))

BuildFourierPotential ==
    /\ real_voxel_grid # None /\ fourier_potential = None
    /\ fourier_potential' =
           FourierVoxelGridPotential_from_real_voxel_grid(
               real_voxel_grid.grid, real_voxel_grid.voxel_size)
    /\ UNCHANGED <<real_voxel_grid, vg, fvg_real, notFft>>

BuildRealPotential ==
    /\ real_voxel_grid # None /\ vg = None
    /\ vg' = RealVoxelGridPotential_from_real_voxel_grid(
                 real_voxel_grid.grid, real_voxel_grid.voxel_size)
    /\ UNCHANGED <<real_voxel_grid, fourier_potential, fvg_real, notFft>>

InverseTransform ==
    /\ fourier_potential # None /\ fvg_real = None
    /\ fvg_real' = inverse_transform(fourier_potential)
    /\ UNCHANGED <<real_voxel_grid, fourier_potential, vg, notFft>>

\* potential_as_real_voxel_grid = atomic_potential.as_real_voxel_grid(coordinate_grid)
InitFft ==
    /\ IdleProj /\ IdleOp /\ IdleDown /\ IdleAtom /\ NoCall
    /\ real_voxel_grid \in { [grid |-> g, voxel_size |-> vs] :
                                g \in RealGridArgs, vs \in 1 .. MaxSize }
    /\ fourier_potential = None
    /\ vg = None
    /\ fvg_real = None

NextFft == BuildFourierPotential \/ BuildRealPotential \/ InverseTransform

SpecFft == InitFft /\ [][NextFft]_vars

\* C3: transforming the un-shifted Fourier grid back reproduces the real grid,
\* that is, the grid held by the real-space representation of the same input.
C3_RoundTrip ==
    (fvg_real # None /\ vg # None) => fvg_real = vg.real_voxel_grid

\* A grid with an odd axis, not constant, went through both representations.
C3_Witness ==
    /\ fvg_real # None /\ vg # None
    /\ \E i \in 1 .. 3 : fvg_real.shape[i] % 2 = 1 /\ fvg_real.shape[i] > 1
    /\ \E ix \in DOMAIN fvg_real.val, iy \in DOMAIN fvg_real.val :
           fvg_real.val[ix] # fvg_real.val[iy]
    /\ fourier_potential.fourier_voxel_grid # fftn(vg.real_voxel_grid)

(***************************************************************************)
(* Downsampling by Fourier cropping                                        *)
(* (test_downsampled_voxel_potential_agreement).  A grid is its shape; a   *)
(* downsampling factor is the fraction num / den >= 1.                     *)
(***************************************************************************)
MaxShape == 4      \* grid axes have 1..MaxShape voxels, or TestShape
MaxDen == 3        \* factors num / den >= 1 with den in 1..MaxDen, num in 1..2 * MaxDen
TestShape == 64    \* shape = (64, 64, 64)

\* downsampling_factor = 1.05
TestFactor == <<21, 20>>

ShapeAxes == (1 .. MaxShape) \cup {TestShape}

FactorArgs ==
    {TestFactor} \cup { <<num, den>> : num \in 1 .. 2 * MaxDen, den \in 1 .. MaxDen }

\* The test's downsampled_shape: int(shape[i] / downsampling_factor) per axis.
downsampled_shape(s, f) ==
    <<TruncDiv(s[1] * f[2], f[1]), TruncDiv(s[2] * f[2], f[1]), TruncDiv(s[3] * f[2], f[1])>>

\* A faulty variant: the crop size is rounded to the nearest integer.
downsample_with_fourier_cropping_rounded(s, f) ==
    [shape |-> <<RoundDiv(s[1] * f[2], f[1]), RoundDiv(s[2] * f[2], f[1]),
                 RoundDiv(s[3] * f[2], f[1])>>]

\* downsample_with_fourier_cropping(grid of shape s, f): the grid is cropped
\* in Fourier space to int(s[i] / f) samples per axis.  The test asserts that
\* its output has the shape int(shape / 1.05) = (60, 60, 60) of the grid
\* rasterized at low resolution; rounding 64 / 1.05 = 60.95 gives 61.
downsample_with_fourier_cropping(s, f) ==
    [shape |-> <<TruncDiv(s[1] * f[2], f[1]), TruncDiv(s[2] * f[2], f[1]),
                 TruncDiv(s[3] * f[2], f[1])>>]

\* make_coordinate_grid(downsampled_shape, ...) and as_real_voxel_grid on it:
\* the rasterized grid has the shape of its coordinate grid.
BuildLowResolutionGrid ==
    /\ grid_shape # <<>> /\ low_resolution_potential_grid = None
    /\ low_resolution_potential_grid' =
           [shape |-> downsampled_shape(grid_shape, downsampling_factor)]
    /\ UNCHANGED <<grid_shape, downsampling_factor, downsampled_potential_grid, notDown>>

Downsample ==
    /\ grid_shape # <<>> /\ downsampled_potential_grid = None
    /\ downsampled_potential_grid' =
           downsample_with_fourier_cropping(grid_shape, downsampling_factor)
    /\ UNCHANGED <<grid_shape, downsampling_factor, low_resolution_potential_grid, notDown>>

InitDown ==
    /\ IdleProj /\ IdleOp /\ IdleFft /\ IdleAtom /\ NoCall
    /\ grid_shape \in ShapeAxes \X ShapeAxes \X ShapeAxes
    /\ downsampling_factor \in { f \in FactorArgs : f[1] >= f[2] }
    /\ low_resolution_potential_grid = None
    /\ downsampled_potential_grid = None

NextDown == BuildLowResolutionGrid \/ Downsample

SpecDown == InitDown /\ [][NextDown]_vars

RoundedShape(s, f) ==
    <<RoundDiv(s[1] * f[2], f[1]), RoundDiv(s[2] * f[2], f[1]), RoundDiv(s[3] * f[2], f[1])>>

\* C4 as stated: the downsampled grid has round(s / f) samples per axis and so
\* the shape of the grid rasterized on the low-resolution shape.
C4_RoundedShapeLaw ==
    (downsampled_potential_grid # None /\ low_resolution_potential_grid # None) =>
        /\ downsampled_potential_grid.shape = RoundedShape(grid_shape, downsampling_factor)
        /\ downsampled_potential_grid.shape = low_resolution_potential_grid.shape

\* C4 amended: the downsampled grid has int(s / f) samples per axis (truncated,
\* each axis on its own) and so the shape of the grid rasterized on the
\* low-resolution shape int(s / f).
C4_TruncatedShapeLaw ==
    (downsampled_potential_grid # None /\ low_resolution_potential_grid # None) =>
        /\ \A i \in 1 .. 3 :
              /\ downsampled_potential_grid.shape[i] * downsampling_factor[1]
                     <= grid_shape[i] * downsampling_factor[2]
              /\ (downsampled_potential_grid.shape[i] + 1) * downsampling_factor[1]
                     > grid_shape[i] * downsampling_factor[2]
        /\ downsampled_potential_grid.shape = low_resolution_potential_grid.shape

\* The test's own case, where rounding and truncation differ, with axes that
\* are not all alike.
C4_Witness ==
    /\ downsampled_potential_grid # None /\ low_resolution_potential_grid # None
    /\ downsampling_factor = TestFactor
    /\ grid_shape[1] = TestShape /\ grid_shape[2] # grid_shape[1]
    /\ downsampled_potential_grid.shape # RoundedShape(grid_shape, downsampling_factor)

(***************************************************************************)
(* Rasterizing a Gaussian-mixture atomic potential                         *)
(* (TestBuildRealSpaceVoxelsFromAtoms.test_maxima_are_in_right_positions). *)
(* Positions and voxel sizes are integers; amplitudes and grid values are  *)
(* fixed-point numbers.                                                    *)
(***************************************************************************)
MaxSide == 3       \* n_voxels_per_side = (MaxSide, MaxSide, MaxSide)
MaxWidth == 2      \* b coefficients 4, 8, .., 4 * MaxWidth: narrow next to a voxel
NumAtoms == 3      \* atoms of the toy cloud: largest_atom in range(0, 3)
NumGaussians == 2  \* Gaussian components per atom

\* make_coordinate_grid(shape, voxel_size): the position of voxel (i, j, k)
\* relative to the grid's centre shape // 2.
make_coordinate_grid(n, vs) ==
    [ix \in Idx3(n) |->
        <<(ix[1] - (n[1] \div 2)) * vs, (ix[2] - (n[2] \div 2)) * vs,
          (ix[3] - (n[3] \div 2)) * vs>>]

Dist2(r, p) ==
    (r[1] - p[1]) * (r[1] - p[1]) + (r[2] - p[2]) * (r[2] - p[2])
    + (r[3] - p[3]) * (r[3] - p[3])

\* 4 pi^2
FourPiSq == (4 * PiFP * PiFP) \div FP

\* (4 pi / b)^(3/2)
GaussianNorm(b) == LET q == DivFP(4 * PiFP, b * FP) IN MulFP(q, SqrtFP(q))

\* a * (4 pi / b)^(3/2) * exp(-4 pi^2 |r - pos|^2 / b)
GaussianTerm(r, pos, a, b) ==
    MulFP(MulFP(a, GaussianNorm(b)), ExpNegFP((FourPiSq * Dist2(r, pos)) \div b))

RECURSIVE SumGaussians(_, _, _, _, _)
SumGaussians(r, pos, a, b, k) ==
    IF k > Len(a) THEN 0
    ELSE GaussianTerm(r, pos, a[k], b[k]) + SumGaussians(r, pos, a, b, k + 1)

RECURSIVE SumAtoms(_, _, _, _, _)
SumAtoms(r, positions, a, b, i) ==
    IF i > Len(positions) THEN 0
    ELSE SumGaussians(r, positions[i], a[i], b[i], 1)
         + SumAtoms(r, positions, a, b, i + 1)

\* GaussianMixtureAtomicPotential(positions, a, b).as_real_voxel_grid(coords):
\* V(r) = sum over atoms and components of the Gaussian terms.
as_real_voxel_grid(positions, a, b, n, coords) ==
    [shape |-> n, val |-> [ix \in Idx3(n) |-> SumAtoms(coords[ix], positions, a, b, 1)]]

\* Position of (i, j, k) in the flattened (row-major) grid.
FlatIndex(ix, n) == (ix[1] * n[2] + ix[2]) * n[3] + ix[3]

\* jnp.argmax(real_voxel_grid): the first maximum of the flattened grid.
argmax(g) ==
    CHOOSE ix \in Idx3(g.shape) :
        \A iy \in Idx3(g.shape) :
            \/ g.val[ix] > g.val[iy]
            \/ g.val[ix] = g.val[iy] /\ FlatIndex(ix, g.shape) <= FlatIndex(iy, g.shape)

\* maximum_position = coordinate_grid.reshape(-1, 3)[maximum_index]
maximum_position_of(g, coords) == coords[argmax(g)]

\* A faulty variant: the amplitude is raised at the first atom, whatever largest_atom is.
raise_amplitude_first(a, i) ==
    [j \in DOMAIN a |-> IF j = 1 THEN [k \in DOMAIN a[j] |-> a[j][k] + FP] ELSE a[j]]

\* ff_a = ff_a.at[largest_atom].add(1.0), largest_atom counted from 0.
raise_amplitude(a, i) ==
    [j \in DOMAIN a |-> IF j = i + 1 THEN [k \in DOMAIN a[j] |-> a[j][k] + FP] ELSE a[j]]

\* The grid sites (as voxel indices) the toy cloud's atoms may sit on.
AtomSites(n) ==
    { <<0, 0, 0>>, <<n \div 2, n \div 2, n \div 2>>, <<n - 1, n - 1, n - 1>>,
      <<0, n - 1, n \div 2>> }

\* The toy clouds: NumAtoms atoms on distinct grid points, all with the same
\* NumGaussians amplitudes and the same narrow widths.
ToyClouds ==
    LET n == <<MaxSide, MaxSide, MaxSide>>
    IN  { [atom_positions |-> [i \in 1 .. NumAtoms |-> make_coordinate_grid(n, vs)[sites[i]]],
           ff_a |-> [i \in 1 .. NumAtoms |-> [k \in 1 .. NumGaussians |->
                                                IF k = 1 THEN a * FP ELSE FP]],
           ff_b |-> [i \in 1 .. NumAtoms |-> [k \in 1 .. NumGaussians |->
                                                IF k = 1 THEN 4 * w ELSE 4]],
           n_voxels_per_side |-> n,
           voxel_size |-> vs] :
          sites \in { t \in [1 .. NumAtoms -> AtomSites(MaxSide)] :
                        \A i, j \in 1 .. NumAtoms : i # j => t[i] # t[j] },
          a \in 1 .. MaxAmp, w \in 1 .. MaxWidth, vs \in 1 .. MaxSize }

\* @pytest.mark.parametrize("largest_atom", range(0, 3)) and the amplitude raise.
RaiseAmplitude ==
    \E i \in 0 .. NumAtoms - 1 :
        /\ cloud # None /\ largest_atom = <<>>
        /\ largest_atom' = <<i>>
        /\ cloud' = [cloud EXCEPT !.ff_a = raise_amplitude(cloud.ff_a, i)]
        /\ UNCHANGED <<atom_grid, maximum_position, notAtom>>

Rasterize ==
    /\ largest_atom # <<>> /\ atom_grid = None
    /\ atom_grid' =
           as_real_voxel_grid(cloud.atom_positions, cloud.ff_a, cloud.ff_b,
               cloud.n_voxels_per_side,
               make_coordinate_grid(cloud.n_voxels_per_side, cloud.voxel_size))
    /\ UNCHANGED <<cloud, largest_atom, maximum_position, notAtom>>

FindMaximum ==
    /\ atom_grid # None /\ maximum_position = <<>>
    /\ maximum_position' =
           <<maximum_position_of(atom_grid,
                 make_coordinate_grid(cloud.n_voxels_per_side, cloud.voxel_size))>>
    /\ UNCHANGED <<cloud, largest_atom, atom_grid, notAtom>>

InitAtom ==
    /\ IdleProj /\ IdleOp /\ IdleFft /\ IdleDown /\ NoCall
    /\ cloud \in ToyClouds
    /\ largest_atom = <<>>
    /\ atom_grid = None
    /\ maximum_position = <<>>

NextAtom == RaiseAmplitude \/ Rasterize \/ FindMaximum

SpecAtom == InitAtom /\ [][NextAtom]_vars

\* C7: with narrow Gaussians on distinct grid points and one atom's amplitude
\* raised above the others, no grid value exceeds the value at that atom's
\* position, and the maximum the test finds is at that position.
C7_PeakAtLargestAtom ==
    LET coords == make_coordinate_grid(cloud.n_voxels_per_side, cloud.voxel_size)
        where == cloud.atom_positions[largest_atom[1] + 1]
    IN  /\ atom_grid # None =>
               \A ix \in DOMAIN atom_grid.val :
                   coords[ix] = where =>
                       \A iy \in DOMAIN atom_grid.val :
                           iy # ix => atom_grid.val[iy] < atom_grid.val[ix]
        /\ maximum_position # <<>> => maximum_position[1] = where

\* The maximum was found for a raised atom other than the first, with a
\* neighbouring atom's tail reaching it.
C7_Witness ==
    /\ maximum_position # <<>>
    /\ largest_atom[1] > 0
    /\ \E ix \in DOMAIN atom_grid.val :
           atom_grid.val[ix] # 0
           /\ \A i \in 1 .. NumAtoms :
                  make_coordinate_grid(cloud.n_voxels_per_side, cloud.voxel_size)[ix]
                      # cloud.atom_positions[i]

=============================================================================
